---- MODULE Spec2Model ----
(***************************************************************************)
(* Model of dfdatetime's .NET DateTime adapter (DotNetDateTime): a count   *)
(* of 100 nanosecond ticks since 0001-01-01, its normalized-timestamp      *)
(* cache and its conversion to and from the date and time string.          *)
(*                                                                         *)
(* Python integers are unbounded and the timestamps of this format need    *)
(* 64 bits, so an integer that may leave TLC's 32-bit range is a "Big": a  *)
(* triple <<a, b, c>> of limbs in base 10^7 standing for                   *)
(* a * 10^14 + b * 10^7 + c with 0 <= b, c < 10^7 and a of either sign.    *)
(* A string is the sequence of its characters.  None is <<>> and a present *)
(* value v of an optional is <<v>>.                                        *)
(***************************************************************************)
EXTENDS Integers, Sequences, FiniteSets, TLC

\* The instance's fields, then the history the claims speak of: whether
\* the instance was constructed without a timestamp and no string has been
\* copied into it since, how often the normalized timestamp was computed
\* since the last mutation (counted to 2), and the last call with its
\* argument, its return value and the exception it raised.
VARIABLES timestamp, time_zone_offset, normalized_timestamp,
          created_empty, computations,
          last_op, last_arg, last_ret, last_raised

vars == <<timestamp, time_zone_offset, normalized_timestamp,
          created_empty, computations,
          last_op, last_arg, last_ret, last_raised>>

None == <<>>

Some(v) == <<v>>

(***************************************************************************)
(* Unbounded integer arithmetic on limbs.                                  *)
(***************************************************************************)
Radix == 10 ^ 7

BigNorm(a, b, c) ==
  LET b0 == b + (c \div Radix)
  IN  <<a + (b0 \div Radix), b0 % Radix, c % Radix>>

BigFromInt(n) == BigNorm(0, 0, n)

BigAdd(x, y) == BigNorm(x[1] + y[1], x[2] + y[2], x[3] + y[3])

BigSub(x, y) == BigNorm(x[1] - y[1], x[2] - y[2], x[3] - y[3])

\* x * k for 0 <= k <= 200: no limb product leaves 32 bits.
BigMulSmall(x, k) == BigNorm(x[1] * k, x[2] * k, x[3] * k)

RECURSIVE BigMul(_, _)
\* x * k for any k >= 0, by the base-100 digits of k.
BigMul(x, k) ==
  IF k <= 200 THEN BigMulSmall(x, k)
  ELSE BigAdd(BigMulSmall(BigMul(x, k \div 100), 100), BigMulSmall(x, k % 100))

BigLess(x, y) ==
  \/ x[1] < y[1]
  \/ x[1] = y[1] /\ x[2] < y[2]
  \/ x[1] = y[1] /\ x[2] = y[2] /\ x[3] < y[3]

BigLeq(x, y) == x = y \/ BigLess(x, y)

\* Python's divmod(x, k), floor division, for k = Radix or 0 < k <= 200.
BigDivMod(x, k) ==
  IF k = Radix
  THEN <<BigNorm(0, x[1], x[2]), x[3]>>
  ELSE LET qa == x[1] \div k
           rb == (x[1] % k) * Radix + x[2]
           rc == (rb % k) * Radix + x[3]
       IN  <<BigNorm(qa, rb \div k, rc \div k), rc % k>>

\* The value of a Big known to fit 32 bits.
BigToInt(x) == x[2] * Radix + x[3]

(***************************************************************************)
(* Constants of dfdatetime.definitions and of interface.DateTimeValues.    *)
(***************************************************************************)
SECONDS_PER_DAY == 86400

MICROSECONDS_PER_SECOND == 1000000

_100NS_PER_SECOND == 10000000

_100NS_PER_MICROSECOND == 10

\* (1 << 64) - 1 = 18446744073709551615
_UINT64_MAX == <<184467, 4407370, 9551615>>

\* DotNetDateTimeEpoch: interface.DateTimeEpoch(1, 1, 1)
_EPOCH == [year |-> 1, month |-> 1, day_of_month |-> 1]

\* Mutant: the leap days counted through 1970 instead of 1969.
DOTNET_TO_POSIX_BASE_from_1970 ==
  BigMul(BigFromInt((1970 * 365) + (1970 \div 4) - (1970 \div 100)
                    + (1970 \div 400)),
         SECONDS_PER_DAY)

\* The difference between January 1, 0001 and January 1, 1970 in seconds.
_DOTNET_TO_POSIX_BASE ==
  BigMul(BigFromInt((1969 * 365) + (1969 \div 4) - (1969 \div 100)
                    + (1969 \div 400)),
         SECONDS_PER_DAY)

(***************************************************************************)
(* Calendar arithmetic of interface.DateTimeValues.                        *)
(***************************************************************************)
_IsLeapYear(year) ==
  (year % 4 = 0 /\ year % 100 # 0) \/ year % 400 = 0

_GetDaysPerMonth(year, month) ==
  IF month = 2 THEN (IF _IsLeapYear(year) THEN 29 ELSE 28)
  ELSE IF month \in {4, 6, 9, 11} THEN 30 ELSE 31

_GetNumberOfDaysInYear(year) == IF _IsLeapYear(year) THEN 366 ELSE 365

\* Days of the 100 years that start with the year.
_GetNumberOfDaysInCentury(year) ==
  IF \E y \in year..(year + 99) : y % 400 = 0 THEN 36525 ELSE 36524

RECURSIVE DaysBeforeMonth(_, _)
\* Days of the year that precede the first of the month.
DaysBeforeMonth(year, month) ==
  IF month <= 1 THEN 0
  ELSE DaysBeforeMonth(year, month - 1) + _GetDaysPerMonth(year, month - 1)

\* Days from 0001-01-01 to January 1 of the year (proleptic Gregorian).
DaysBeforeYear(year) ==
  (year - 1) * 365 + ((year - 1) \div 4) - ((year - 1) \div 100)
  + ((year - 1) \div 400)

\* Days from the epoch date to the date.
DaysSinceEpoch(epoch, year, month, day_of_month) ==
  (DaysBeforeYear(year) + DaysBeforeMonth(year, month) + day_of_month)
  - (DaysBeforeYear(epoch.year) + DaysBeforeMonth(epoch.year, epoch.month)
     + epoch.day_of_month)

RECURSIVE StepCenturies(_, _)
StepCenturies(year, days) ==
  IF days >= _GetNumberOfDaysInCentury(year)
  THEN StepCenturies(year + 100, days - _GetNumberOfDaysInCentury(year))
  ELSE <<year, days>>

RECURSIVE StepYears(_, _)
StepYears(year, days) ==
  IF days >= _GetNumberOfDaysInYear(year)
  THEN StepYears(year + 1, days - _GetNumberOfDaysInYear(year))
  ELSE <<year, days>>

RECURSIVE StepMonths(_, _, _)
StepMonths(year, month, days) ==
  IF days >= _GetDaysPerMonth(year, month)
  THEN StepMonths(year, month + 1, days - _GetDaysPerMonth(year, month))
  ELSE <<month, days>>

\* The date number_of_days after the epoch, for number_of_days >= 0 and an
\* epoch on January 1 of the first year of a century: whole 400-year cycles,
\* then centuries, years and months.
_GetDateValuesWithEpoch(number_of_days, epoch) ==
  LET cycles == number_of_days \div 146097
      c == StepCenturies(epoch.year + 400 * cycles, number_of_days % 146097)
      y == StepYears(c[1], c[2])
      m == StepMonths(y[1], epoch.month, y[2])
  IN  <<y[1], m[1], m[2] + epoch.day_of_month>>

\* number_of_seconds (a Big) split into days, hours, minutes and seconds.
_GetTimeValues(number_of_seconds) ==
  LET m == BigDivMod(number_of_seconds, 60)
      h == BigDivMod(m[1], 60)
      d == BigDivMod(h[1], 24)
  IN  <<BigToInt(d[1]), d[2], h[2], m[2]>>

\* calendar.timegm of the elements, for a year of 1 or more: seconds since
\* 1970-01-01 00:00:00, negative before it.
_GetNumberOfSecondsFromElements(year, month, day_of_month, hours, minutes, seconds) ==
  LET days == DaysSinceEpoch([year |-> 1970, month |-> 1, day_of_month |-> 1],
                             year, month, day_of_month)
  IN  BigAdd(BigMul(BigFromInt(days), SECONDS_PER_DAY),
             BigFromInt(hours * 3600 + minutes * 60 + seconds))

(***************************************************************************)
(* Characters, str.format and int().                                       *)
(***************************************************************************)
Digits == <<"0", "1", "2", "3", "4", "5", "6", "7", "8", "9">>

DigitChar(d) == Digits[d + 1]

IsDigit(ch) == \E i \in 1..10 : Digits[i] = ch

DigitValue(ch) == (CHOOSE i \in 1..10 : Digits[i] = ch) - 1

RECURSIVE DecimalDigits(_)
\* str(n) for n >= 0.
DecimalDigits(n) ==
  IF n < 10 THEN <<DigitChar(n)>>
  ELSE Append(DecimalDigits(n \div 10), DigitChar(n % 10))

RECURSIVE ZeroPad(_, _)
ZeroPad(s, width) == IF Len(s) >= width THEN s ELSE ZeroPad(<<"0">> \o s, width)

\* '{0:0<width>d}'.format(n) for n >= 0: at least width characters.
FormatInt(n, width) == ZeroPad(DecimalDigits(n), width)

IsDigitString(s) == Len(s) > 0 /\ \A i \in 1..Len(s) : IsDigit(s[i])

RECURSIVE ParseInt(_)
\* int(s, 10) of a string of digits.
ParseInt(s) ==
  IF Len(s) = 0 THEN 0
  ELSE ParseInt(SubSeq(s, 1, Len(s) - 1)) * 10 + DigitValue(s[Len(s)])

(***************************************************************************)
(* interface.DateTimeValues._CopyDateTimeFromString: the string            *)
(* YYYY-MM-DD[ hh:mm:ss[.fff|.ffffff]][+-hh:mm] as a dict.  A dict is a    *)
(* record of optionals (None: the key is absent); error: ValueError.       *)
(***************************************************************************)
NoValues ==
  [year |-> None, month |-> None, day_of_month |-> None, hours |-> None,
   minutes |-> None, seconds |-> None, microseconds |-> None,
   time_zone_offset |-> None]

ParseError == [error |-> TRUE, values |-> NoValues]

\* dict.get(key, default)
Get(option, default) == IF option = None THEN default ELSE option[1]

\* date_string[0:10] as <<year, month, day_of_month>>, or <<>> for ValueError.
_CopyDateFromString(date_string) ==
  IF Len(date_string) < 10 THEN <<>>
  ELSE IF date_string[5] # "-" \/ date_string[8] # "-" THEN <<>>
  ELSE IF ~ (/\ IsDigitString(SubSeq(date_string, 1, 4))
             /\ IsDigitString(SubSeq(date_string, 6, 7))
             /\ IsDigitString(SubSeq(date_string, 9, 10))) THEN <<>>
  ELSE LET year == ParseInt(SubSeq(date_string, 1, 4))
           month == ParseInt(SubSeq(date_string, 6, 7))
           day_of_month == ParseInt(SubSeq(date_string, 9, 10))
       IN  IF month \notin 1..12 THEN <<>>
           ELSE IF day_of_month < 1
                   \/ day_of_month > _GetDaysPerMonth(year, month) THEN <<>>
           ELSE <<year, month, day_of_month>>

\* The index of the first '+' or '-' at or after index from, else Len + 1.
RECURSIVE TimeZoneStringIndex(_, _)
TimeZoneStringIndex(s, from) ==
  IF from > Len(s) THEN Len(s) + 1
  ELSE IF s[from] \in {"+", "-"} THEN from
  ELSE TimeZoneStringIndex(s, from + 1)

\* 'hh:mm:ss[.fff|.ffffff][+-hh:mm]' as <<hours, minutes, seconds,
\* microseconds, time_zone_offset>> (the last two optional), or <<>> for
\* ValueError.
_CopyTimeFromString(time_string) ==
  IF Len(time_string) < 8 THEN <<>>
  ELSE IF time_string[3] # ":" \/ time_string[6] # ":" THEN <<>>
  ELSE IF ~ (/\ IsDigitString(SubSeq(time_string, 1, 2))
             /\ IsDigitString(SubSeq(time_string, 4, 5))
             /\ IsDigitString(SubSeq(time_string, 7, 8))) THEN <<>>
  ELSE
    LET hours == ParseInt(SubSeq(time_string, 1, 2))
        minutes == ParseInt(SubSeq(time_string, 4, 5))
        seconds == ParseInt(SubSeq(time_string, 7, 8))
        tz == TimeZoneStringIndex(time_string, 9)
        has_fraction == Len(time_string) > 8 /\ time_string[9] = "."
        fraction == SubSeq(time_string, 10, tz - 1)
        has_offset == tz <= Len(time_string)
        offset == SubSeq(time_string, tz, Len(time_string))
    IN  IF hours \notin 0..23 \/ minutes \notin 0..59 \/ seconds \notin 0..59
        THEN <<>>
        ELSE IF ~ has_fraction /\ tz # 9 THEN <<>>
        ELSE IF has_fraction
                /\ (Len(fraction) \notin {3, 6} \/ ~ IsDigitString(fraction))
        THEN <<>>
        ELSE IF has_offset
                /\ ~ (/\ Len(offset) = 6
                      /\ offset[4] = ":"
                      /\ IsDigitString(SubSeq(offset, 2, 3))
                      /\ IsDigitString(SubSeq(offset, 5, 6)))
        THEN <<>>
        ELSE
          LET microseconds ==
                IF ~ has_fraction THEN None
                ELSE IF Len(fraction) = 3 THEN Some(ParseInt(fraction) * 1000)
                ELSE Some(ParseInt(fraction))
              minutes_from_utc ==
                ParseInt(SubSeq(offset, 2, 3)) * 60
                + ParseInt(SubSeq(offset, 5, 6))
              offset_minutes ==
                IF ~ has_offset THEN None
                ELSE IF offset[1] = "-" THEN Some(- minutes_from_utc)
                ELSE Some(minutes_from_utc)
          IN  <<hours, minutes, seconds, microseconds, offset_minutes>>

_CopyDateTimeFromString(time_string) ==
  LET date == _CopyDateFromString(time_string)
      time == _CopyTimeFromString(SubSeq(time_string, 12, Len(time_string)))
      date_values ==
        [NoValues EXCEPT !.year = Some(date[1]), !.month = Some(date[2]),
                         !.day_of_month = Some(date[3])]
  IN  IF date = <<>> THEN ParseError
      ELSE IF Len(time_string) <= 10
      THEN [error |-> FALSE, values |-> date_values]
      ELSE IF time_string[11] # " " \/ time = <<>> THEN ParseError
      ELSE [error |-> FALSE,
            values |-> [date_values EXCEPT !.hours = Some(time[1]),
                                           !.minutes = Some(time[2]),
                                           !.seconds = Some(time[3]),
                                           !.microseconds = time[4],
                                           !.time_zone_offset = time[5]]]

(***************************************************************************)
(* DotNetDateTime                                                          *)
(***************************************************************************)
Zero == BigFromInt(0)

\* decimal.Decimal(value) / _100NS_PER_SECOND: exact, since the quotient has
\* at most 7 decimal places and far fewer than the context's 28 digits.  A
\* Decimal is its whole seconds (floor) and its fraction in units of 10^-7.
DecimalDivide(value, divisor) ==
  LET dm == BigDivMod(value, divisor)
  IN  [seconds |-> dm[1], fraction |-> dm[2] * (Radix \div divisor)]

\* Decimal minus an integer (a Big).
DecimalSubtract(decimal, integer) ==
  [decimal EXCEPT !.seconds = BigSub(decimal.seconds, integer)]

\* __init__(timestamp): the state of the new instance.
Construct(argument) ==
  /\ created_empty = (argument = None)
  /\ timestamp = (IF argument = None \/ argument = Some(Zero)
                  THEN Some(Zero) ELSE argument)
  /\ time_zone_offset = 0
  /\ normalized_timestamp = None
  /\ computations = 0
  /\ last_op = "__init__"
  /\ last_arg = None
  /\ last_ret = None
  /\ last_raised = None

\* The value _GetNormalizedTimestamp computes when the cache is empty.
NormalizedTimestamp(ts, offset) ==
  LET quotient == DecimalDivide(ts, _100NS_PER_SECOND)
      posix == DecimalSubtract(quotient, _DOTNET_TO_POSIX_BASE)
  IN  IF offset # 0
      THEN DecimalSubtract(posix, BigFromInt(offset * 60))
      ELSE posix

_GetNormalizedTimestamp ==
  /\ IF normalized_timestamp = None /\ timestamp # None
     THEN /\ normalized_timestamp' =
               Some(NormalizedTimestamp(timestamp[1], time_zone_offset))
          /\ computations' = IF computations < 2 THEN computations + 1 ELSE 2
     ELSE UNCHANGED <<normalized_timestamp, computations>>
  /\ last_op' = "_GetNormalizedTimestamp"
  /\ last_arg' = None
  /\ last_ret' = normalized_timestamp'
  /\ last_raised' = None
  /\ UNCHANGED <<timestamp, time_zone_offset, created_empty>>

\* Lines 96 to 102: the timestamp computed from the parsed elements, or
\* TypeError when microseconds is None.
TimestampFromElements(year, month, day_of_month, hours, minutes, seconds, microseconds) ==
  LET t0 == _GetNumberOfSecondsFromElements(
              year, month, day_of_month, hours, minutes, seconds)
      t1 == BigAdd(t0, _DOTNET_TO_POSIX_BASE)
      t2 == BigAdd(t1, BigFromInt(MICROSECONDS_PER_SECOND))
      t3 == BigAdd(t2, BigFromInt(microseconds[1]))
      t4 == BigAdd(t3, BigFromInt(_100NS_PER_MICROSECOND))
  IN  IF microseconds = None
      THEN [raised |-> Some("TypeError"), timestamp |-> None]
      ELSE [raised |-> None, timestamp |-> Some(t4)]

\* What CopyFromDateTimeString does with the string before it stores
\* anything: the exception raised, else the values to store.
ParsedTimestamp(time_string) ==
  LET parsed == _CopyDateTimeFromString(time_string)
      v == parsed.values
      year == Get(v.year, 0)
      computed ==
        TimestampFromElements(
          year, Get(v.month, 0), Get(v.day_of_month, 0), Get(v.hours, 0),
          Get(v.minutes, 0), Get(v.seconds, 0), v.microseconds)
  IN  IF parsed.error \/ year > 9999
      THEN [raised |-> Some("ValueError"), timestamp |-> None, offset |-> 0]
      ELSE [raised |-> computed.raised, timestamp |-> computed.timestamp,
            offset |-> Get(v.time_zone_offset, 0)]

\* Mutant: the cache is invalidated before the string is validated.
CopyFromDateTimeString_invalidates_first(time_string) ==
  LET result == ParsedTimestamp(time_string)
  IN  /\ normalized_timestamp' = None
      /\ IF result.raised = None
         THEN /\ timestamp' = result.timestamp
              /\ time_zone_offset' = result.offset
              /\ created_empty' = FALSE
              /\ computations' = 0
         ELSE UNCHANGED <<timestamp, time_zone_offset, created_empty,
                          computations>>
      /\ last_op' = "CopyFromDateTimeString"
      /\ last_arg' = Some(time_string)
      /\ last_ret' = None
      /\ last_raised' = result.raised

\* Mutant: the cache is not invalidated when the timestamp is replaced.
CopyFromDateTimeString_keeps_cache(time_string) ==
  LET result == ParsedTimestamp(time_string)
  IN  /\ IF result.raised = None
         THEN /\ timestamp' = result.timestamp
              /\ time_zone_offset' = result.offset
              /\ created_empty' = FALSE
              /\ computations' = 0
         ELSE UNCHANGED <<timestamp, time_zone_offset, created_empty,
                          computations>>
      /\ UNCHANGED normalized_timestamp
      /\ last_op' = "CopyFromDateTimeString"
      /\ last_arg' = Some(time_string)
      /\ last_ret' = None
      /\ last_raised' = result.raised

CopyFromDateTimeString(time_string) ==
  LET result == ParsedTimestamp(time_string)
  IN  /\ IF result.raised = None
         THEN /\ normalized_timestamp' = None
              /\ timestamp' = result.timestamp
              /\ time_zone_offset' = result.offset
              /\ created_empty' = FALSE
              /\ computations' = 0
         ELSE UNCHANGED <<normalized_timestamp, timestamp, time_zone_offset,
                          created_empty, computations>>
      /\ last_op' = "CopyFromDateTimeString"
      /\ last_arg' = Some(time_string)
      /\ last_ret' = None
      /\ last_raised' = result.raised

\* Mutant: the upper bound itself is refused.
IsOutOfRange_excludes_maximum(ts) ==
  ts = None \/ BigLess(ts[1], Zero) \/ BigLeq(_UINT64_MAX, ts[1])

\* Lines 115 to 117: the timestamp has no date and time string.
IsOutOfRange(ts) ==
  ts = None \/ BigLess(ts[1], Zero) \/ BigLess(_UINT64_MAX, ts[1])

\* Mutant: the month and the day of month exchanged in the format string.
FormatDateTime_day_before_month(year, month, day_of_month, hours, minutes, seconds, remainder) ==
  FormatInt(year, 4) \o <<"-">> \o FormatInt(day_of_month, 2) \o <<"-">>
  \o FormatInt(month, 2) \o <<" ">> \o FormatInt(hours, 2) \o <<":">>
  \o FormatInt(minutes, 2) \o <<":">> \o FormatInt(seconds, 2) \o <<".">>
  \o FormatInt(remainder, 7)

\* Lines 125 and 126: the format string applied to the values.
FormatDateTime(year, month, day_of_month, hours, minutes, seconds, remainder) ==
  FormatInt(year, 4) \o <<"-">> \o FormatInt(month, 2) \o <<"-">>
  \o FormatInt(day_of_month, 2) \o <<" ">> \o FormatInt(hours, 2) \o <<":">>
  \o FormatInt(minutes, 2) \o <<":">> \o FormatInt(seconds, 2) \o <<".">>
  \o FormatInt(remainder, 7)

\* The value CopyToDateTimeString returns for the timestamp.
DateTimeString(ts) ==
  IF IsOutOfRange(ts) THEN None
  ELSE LET dm == BigDivMod(ts[1], _100NS_PER_SECOND)
           tv == _GetTimeValues(dm[1])
           date == _GetDateValuesWithEpoch(tv[1], _EPOCH)
       IN  Some(FormatDateTime(date[1], date[2], date[3], tv[2], tv[3], tv[4],
                               dm[2]))

CopyToDateTimeString ==
  /\ last_op' = "CopyToDateTimeString"
  /\ last_arg' = None
  /\ last_ret' = DateTimeString(timestamp)
  /\ last_raised' = None
  /\ UNCHANGED <<timestamp, time_zone_offset, normalized_timestamp,
                 created_empty, computations>>

(***************************************************************************)
(* The inputs: constructor arguments and time strings.                     *)
(***************************************************************************)
MaxSample == 8

MaxFractionWidth == 7

\* 2345678901234567891: the samples 0, stride, 2 * stride, ... end beyond
\* _UINT64_MAX.
SampleStride == <<23456, 7890123, 4567891>>

\* The ticks of a date, a time of day and a fraction of a second.
Ticks(year, month, day_of_month, hours, minutes, seconds, fraction) ==
  LET days == DaysSinceEpoch(_EPOCH, year, month, day_of_month)
      secs == BigAdd(BigMul(BigFromInt(days), 86400),
                     BigFromInt(hours * 3600 + minutes * 60 + seconds))
  IN  BigAdd(BigMul(secs, 10000000), BigFromInt(fraction))

SampleTimestamps ==
  {BigMulSmall(SampleStride, i) : i \in 0..MaxSample}
  \cup {BigFromInt(-1), BigFromInt(1), BigFromInt(9999999),
        BigFromInt(10000000), _UINT64_MAX, BigAdd(_UINT64_MAX, BigFromInt(1)),
        Ticks(2010, 8, 12, 20, 6, 31, 0),
        Ticks(1, 12, 31, 23, 59, 59, 9999999),
        Ticks(4, 2, 29, 0, 0, 0, 1),
        Ticks(1900, 2, 28, 23, 59, 59, 9999999),
        Ticks(1900, 3, 1, 0, 0, 0, 0),
        Ticks(1970, 1, 1, 0, 0, 0, 0),
        Ticks(2000, 2, 29, 12, 34, 56, 1234567),
        Ticks(2000, 12, 31, 23, 59, 59, 9999999),
        Ticks(2100, 3, 1, 0, 0, 0, 0),
        Ticks(9999, 12, 31, 23, 59, 59, 9999999),
        Ticks(10000, 1, 1, 0, 0, 0, 0)}

CtorTimestamps == {None} \cup {Some(t) : t \in SampleTimestamps}

D2(n) == <<DigitChar(n \div 10), DigitChar(n % 10)>>

D4(n) == D2(n \div 100) \o D2(n % 100)

DateText(year, month, day_of_month) ==
  D4(year) \o <<"-">> \o D2(month) \o <<"-">> \o D2(day_of_month)

TimeText(hours, minutes, seconds) ==
  <<" ">> \o D2(hours) \o <<":">> \o D2(minutes) \o <<":">> \o D2(seconds)

\* '.' and the first width digits of 4298765...
FractionText(width) ==
  <<".">> \o SubSeq(<<"4", "2", "9", "8", "7", "6", "5", "1", "3", "0">>,
                    1, width)

Moments ==
  {<<1, 1, 1, 0, 0, 0>>, <<2010, 8, 12, 20, 6, 31>>,
   <<9999, 12, 31, 23, 59, 59>>}

DateTimeText(m) == DateText(m[1], m[2], m[3]) \o TimeText(m[4], m[5], m[6])

Offsets == {<<"+", "0", "2", ":", "0", "0">>, <<"-", "0", "5", ":", "3", "0">>}

\* Strings of the grammar whose seconds fraction has 3 or 6 digits.
FractionStrings ==
  {DateTimeText(m) \o FractionText(6) : m \in Moments}
  \cup {DateTimeText(<<2010, 8, 12, 20, 6, 31>>) \o f \o z :
          f \in {FractionText(3), FractionText(6),
                 <<".", "4", "2", "9", "0", "0", "0">>},
          z \in Offsets \cup {<<>>}}

\* Strings of the grammar without a seconds fraction.
NoFractionStrings ==
  {DateText(1, 1, 1), DateText(2010, 8, 12),
   DateTimeText(<<2010, 8, 12, 20, 6, 31>>),
   DateTimeText(<<2010, 8, 12, 20, 6, 31>>)
     \o <<"+", "0", "2", ":", "0", "0">>}

GrammarStrings == FractionStrings \cup NoFractionStrings

\* A seconds fraction of a width other than 3 or 6.
BadFractionStrings ==
  {DateTimeText(<<2010, 8, 12, 20, 6, 31>>) \o FractionText(w) :
     w \in (1..MaxFractionWidth) \ {3, 6}}

\* A year greater than 9999.
BadYearStrings ==
  {<<"1">> \o DateText(0, 1, 1),
   <<"1">> \o DateTimeText(<<0, 1, 1, 0, 0, 0>>) \o FractionText(6)}

MalformedStrings ==
  {<<>>,
   SubSeq(DateText(2010, 8, 12), 1, 9),
   <<"2", "0", "1", "0", "/", "0", "8", "/", "1", "2">>,
   DateText(2010, 2, 29),
   <<"2", "0", "1", "x">> \o SubSeq(DateText(2010, 8, 12), 5, 10),
   DateText(2010, 8, 12) \o <<"T">> \o SubSeq(TimeText(20, 6, 31), 2, 9),
   DateText(2010, 8, 12) \o TimeText(24, 0, 0),
   DateTimeText(<<2010, 8, 12, 20, 6, 31>>) \o FractionText(6)
     \o <<"+", "0", "2", "0", "0">>}

RejectedStrings == BadFractionStrings \cup BadYearStrings \cup MalformedStrings

TimeStrings == GrammarStrings \cup RejectedStrings

(***************************************************************************)
(* The specification.                                                      *)
(***************************************************************************)
Init == \E argument \in CtorTimestamps : Construct(argument)

\* The strings a call may pass: the samples, and the string the previous
\* call of CopyToDateTimeString returned.
Arguments ==
  TimeStrings
  \cup (IF last_op = "CopyToDateTimeString" /\ last_ret # None
        THEN {last_ret[1]} ELSE {})

Next ==
  \/ _GetNormalizedTimestamp
  \/ \E time_string \in Arguments : CopyFromDateTimeString(time_string)
  \/ CopyToDateTimeString

Spec == Init /\ [][Next]_vars

(***************************************************************************)
(* The claims.                                                             *)
(***************************************************************************)
Called(op) == last_op = op

InRange(ts) == ts # None /\ BigLeq(Zero, ts[1]) /\ BigLeq(ts[1], _UINT64_MAX)

\* 2^64, from 2^16.
TwoTo64 == BigMul(BigMul(BigMul(BigFromInt(65536), 65536), 65536), 65536)

BigAbsDiff(x, y) == IF BigLess(x, y) THEN BigSub(y, x) ELSE BigSub(x, y)

\* The fields of a string of the shape Y..Y-MM-DD hh:mm:ss.fffffff, read
\* from its end, as <<year, month, day, hours, minutes, seconds, fraction>>.
FieldsOf(s) ==
  LET n == Len(s)
  IN  <<ParseInt(SubSeq(s, 1, n - 23)), ParseInt(SubSeq(s, n - 21, n - 20)),
        ParseInt(SubSeq(s, n - 18, n - 17)), ParseInt(SubSeq(s, n - 15, n - 14)),
        ParseInt(SubSeq(s, n - 12, n - 11)), ParseInt(SubSeq(s, n - 9, n - 8)),
        ParseInt(SubSeq(s, n - 6, n))>>

\* The string has the shape Y..Y-MM-DD hh:mm:ss.fffffff with at least 4
\* year digits.
HasDateTimeShape(s) ==
  LET n == Len(s)
  IN  /\ n >= 27
      /\ s[n - 22] = "-" /\ s[n - 19] = "-" /\ s[n - 16] = " "
      /\ s[n - 13] = ":" /\ s[n - 10] = ":" /\ s[n - 7] = "."
      /\ \A i \in (1..n) \ {n - 22, n - 19, n - 16, n - 13, n - 10, n - 7} :
            IsDigit(s[i])

\* The string ends in a 6-digit seconds fraction and an optional offset.
HasSixDigitFraction(s) ==
  /\ Len(s) >= 26
  /\ s[20] = "."
  /\ Len(s) = 26 \/ s[27] \in {"+", "-"}

\* The string with its omitted time of day, seconds fraction and time zone
\* offset written out as zero, and a 3-digit fraction as 6 digits.
WrittenOut(s) ==
  LET tail == SubSeq(s, 20, Len(s))
      tz == TimeZoneStringIndex(tail, 1)
      fraction == SubSeq(tail, 1, tz - 1)
      offset == SubSeq(tail, tz, Len(tail))
  IN  SubSeq(s, 1, 10)
      \o (IF Len(s) = 10 THEN TimeText(0, 0, 0) ELSE SubSeq(s, 11, 19))
      \o (IF fraction = <<>> THEN <<".", "0", "0", "0", "0", "0", "0">>
          ELSE IF Len(fraction) = 4 THEN fraction \o <<"0", "0", "0">>
          ELSE fraction)
      \o (IF offset = <<>> THEN <<"+", "0", "0", ":", "0", "0">> ELSE offset)

\* C1: a string CopyToDateTimeString returned for a timestamp in
\* [0, 2^64 - 1], passed to CopyFromDateTimeString, is accepted and leaves
\* a timestamp within one tick of the original.
C1_RoundTrip ==
  [][(/\ Called("CopyToDateTimeString")
      /\ last_ret # None
      /\ last_op' = "CopyFromDateTimeString"
      /\ last_arg' = last_ret)
     => (/\ last_raised' = None
         /\ timestamp' # None
         /\ BigLeq(BigAbsDiff(timestamp'[1], timestamp[1]), BigFromInt(1)))]_vars

\* C2: after a successful CopyFromDateTimeString of a string with a 6-digit
\* fraction, the timestamp is the ticks since 0001-01-01 of the string's
\* date, time and microseconds (times 10) and the offset is the string's.
C2_ParsedTicks ==
  (/\ Called("CopyFromDateTimeString")
   /\ last_raised = None
   /\ HasSixDigitFraction(last_arg[1]))
  => LET v == _CopyDateTimeFromString(last_arg[1]).values
     IN  /\ timestamp =
              Some(Ticks(v.year[1], v.month[1], v.day_of_month[1], v.hours[1],
                         v.minutes[1], v.seconds[1], v.microseconds[1] * 10))
         /\ time_zone_offset = Get(v.time_zone_offset, 0)

\* C3: a normalized-timestamp read of an instance with timestamp t and
\* offset z returns t / 10,000,000 - 62,135,596,800 - z * 60, where
\* 62,135,596,800 is the 719,162 days from 0001-01-01 to 1970-01-01 times
\* 86400; the ticks of 2010-08-12 20:06:31 with offset 0 give 1281643591.
C3_Normalized ==
  /\ (Called("_GetNormalizedTimestamp") /\ timestamp # None)
     => last_ret =
          Some([seconds |->
                  BigSub(BigSub(BigDivMod(timestamp[1], Radix)[1],
                                <<0, 6213, 5596800>>),
                         BigFromInt(time_zone_offset * 60)),
                fraction |-> timestamp[1][3]])
  /\ (/\ Called("_GetNormalizedTimestamp")
      /\ timestamp = Some(<<6341, 7240391, 0>>)
      /\ time_zone_offset = 0)
     => last_ret = Some([seconds |-> BigFromInt(1281643591), fraction |-> 0])
  /\ _GetDateValuesWithEpoch(719162, _EPOCH) = <<1970, 1, 1>>
  /\ BigMul(BigFromInt(719162), 86400) = <<0, 6213, 5596800>>

C3_Witness ==
  /\ Called("_GetNormalizedTimestamp")
  /\ timestamp = Some(<<6341, 7240391, 0>>)
  /\ time_zone_offset = 0
  /\ last_ret = Some([seconds |-> BigFromInt(1281643591), fraction |-> 0])

C5_Rejected ==
  [][(/\ last_op' = "CopyFromDateTimeString"
      /\ last_arg' \in {Some(s) : s \in RejectedStrings})
     => (/\ last_raised' = Some("ValueError")
         /\ UNCHANGED <<timestamp, time_zone_offset,
                        normalized_timestamp>>)]_vars

C5_Witness ==
  /\ Called("CopyFromDateTimeString")
  /\ last_arg \in {Some(s) : s \in BadFractionStrings}
  /\ last_raised = Some("ValueError")
  /\ normalized_timestamp # None
  /\ time_zone_offset # 0

\* C6: CopyFromDateTimeString accepts every string of the grammar, and
\* stores for it what it stores for the string with the omitted components
\* written out as zero and a 3-digit fraction written as 6 digits.
C6_OptionalDefaults ==
  (Called("CopyFromDateTimeString") /\ last_arg[1] \in GrammarStrings)
  => /\ last_raised = None
     /\ timestamp = ParsedTimestamp(WrittenOut(last_arg[1])).timestamp
     /\ time_zone_offset = ParsedTimestamp(WrittenOut(last_arg[1])).offset

C8_EmptyInstance ==
  created_empty
  => /\ timestamp = None
     /\ Called("_GetNormalizedTimestamp") => last_ret = None
     /\ Called("CopyToDateTimeString") => last_ret = None

\* C9: the cached normalized timestamp is None or the value of the current
\* timestamp and offset, a read returns that value, and the value is
\* computed at most once between mutations.
C9_CacheCoherent ==
  /\ \/ normalized_timestamp = None
     \/ /\ timestamp # None
        /\ normalized_timestamp =
             Some(NormalizedTimestamp(timestamp[1], time_zone_offset))
  /\ (Called("_GetNormalizedTimestamp") /\ timestamp # None)
     => last_ret = Some(NormalizedTimestamp(timestamp[1], time_zone_offset))
  /\ computations <= 1

C9_Witness ==
  /\ Called("_GetNormalizedTimestamp")
  /\ ~ created_empty
  /\ time_zone_offset = -330
  /\ computations = 1
  /\ normalized_timestamp # None

\* C10: every string CopyToDateTimeString returns has exactly 27
\* characters, YYYY-MM-DD hh:mm:ss.fffffff, with a year in 1..9999.
C10_FixedShape ==
  (Called("CopyToDateTimeString") /\ last_ret # None)
  => /\ Len(last_ret[1]) = 27
     /\ HasDateTimeShape(last_ret[1])
     /\ FieldsOf(last_ret[1])[1] \in 1..9999

====
